---- MODULE Spec2Model ----
(***************************************************************************)
(* Model of the rate limiter (TokenBucket), the circuit breaker            *)
(* (CircuitBreaker) and the API key rotation / authentication logic of     *)
(* colonycraft-ai's backend.                                               *)
(*                                                                         *)
(* Token counts and times of the token bucket are Python floats; they are  *)
(* modelled as exact fixed-point numbers: a time is a number of ticks      *)
(* (TicksPerSecond ticks to the second) and a token count n is stored as   *)
(* n * TicksPerSecond, so that elapsed * refill_rate is an integer.        *)
(***************************************************************************)
EXTENDS Integers, Sequences, FiniteSets, TLC

VARIABLES
    \* ---- TokenBucket (src/backend/src/core/security.py) ----
    capacity,       \* self.capacity (tokens)
    refill_rate,    \* self.refill_rate (tokens per second)
    tokens,         \* self._tokens: client_id -> scaled token count
    timestamps,     \* self._timestamps: client_id -> tick of the last refill
    last,           \* the last TokenBucket call: its arguments and its result
    streak,         \* unit-cost takes admitted in a row at one clock reading
    \* ---- take calls in flight at the same time ----
    clock,          \* what time_function() returns now, in ticks
    tpc,            \* caller -> the line of take() it is about to run
    tcur,           \* caller -> its local current_tokens
    admitted,       \* tokens handed out by the takes that returned True
    firstSeen,      \* clock reading of the first _refill of the client
    \* ---- CircuitBreaker (src/backend/src/core/optimizations/circuit_breaker.py) ----
    failure_threshold,
    recovery_timeout,
    has_fallback,       \* self.fallback_function is set
    expected_exceptions,    \* self.expected_exceptions: a tuple of classes
    state,
    failure_count,
    last_failure_time,
    last_success_time,
    inflight,           \* callers of execute whose wrapped operation is running
    consecFails,        \* countable failures recorded since the last success or
                        \* reset, counted up to failure_threshold
    probes,             \* the callers in flight that _check_state let through
                        \* leaving the breaker half-open
    lastB,              \* the last step of the breaker and its outcome
    \* ---- API keys (src/backend/src/crud/api_key.py, core/auth/api_key.py) ----
    utcnow,             \* datetime.now(UTC), in days
    keys,               \* the api_keys table: id -> row
    history,            \* the api_key_rotation_history table, in insertion order
    lastK,              \* the last API key operation and its outcome
    revoked,            \* the ids of the keys deactivate_api_key has deactivated
    \* ---- the registry of breakers (CircuitBreaker._circuit_breakers) ----
    registered,         \* which breaker object the registry holds under the
                        \* name: 0 none, n the n-th one constructed
    \* ---- scope authorization (src/backend/src/core/auth/scope.py) ----
    current_user,       \* the authenticated user: is_admin and scopes
    lastS,              \* the last scope check and its outcome
    \* ---- RateLimitMiddleware (src/backend/src/core/middleware/rate_limit.py) ----
    window,             \* settings.RATE_LIMIT_WINDOW, in seconds
    denied,             \* client_id -> its last answer if that was a 429
    seen,               \* client_id -> the endpoints it has requested
    lastL,              \* the last request and its answer
    \* ---- request batching (src/backend/src/core/optimizations/request_batching.py) ----
    active_batches,     \* active_batches: batch_key -> the requests collected
    collecting,         \* batch_key -> the _process_batch task that waits for
                        \* the batch: its arguments and the time it has waited
    next_request,       \* the number the next batch_requests call gets
    running,            \* the batches handed to batch_fn that have not returned
    futures,            \* request -> the state of its result_future
    lastQ,              \* the last step of the batching and its outcome
    \* ---- takes of one client on a clock that never goes back ----
    admits              \* clock reading -> unit-cost takes admitted at it

bucketVars == <<capacity, refill_rate, tokens, timestamps, last, streak>>
concVars == <<tpc, tcur, admitted, firstSeen>>
breakerVars == <<failure_threshold, recovery_timeout, has_fallback,
                 expected_exceptions, state, failure_count, last_failure_time,
                 last_success_time, inflight, consecFails, probes, lastB>>

keyVars == <<utcnow, keys, history, lastK, revoked>>

registryVars == <<registered>>

scopeVars == <<current_user, lastS>>

limitVars == <<window, denied, seen, lastL>>

batchVars == <<active_batches, collecting, next_request, running, futures, lastQ>>

spanVars == <<admits>>

moreVars == <<registryVars, scopeVars, limitVars, batchVars, spanVars>>

vars == <<clock, bucketVars, concVars, breakerVars, keyVars, moreVars>>

----------------------------------------------------------------------------
(* Bounds of the model. *)

TicksPerSecond == 1
MaxTime == 10
MaxCost == 4
MaxNeed == 6
MaxConcTime == 2
MaxAdmitted == 4
MaxBreakerTime == 4
MaxDay == 2
MaxKeys == 3
MaxBreakers == 3
MaxLimitTime == 2
MaxRequests == 4
MaxSpanTime == 3
MaxFrameTime == 2

Null == "None"

Clients == {"a"}
Callers == {"r1", "r2"}

\* (capacity, refill_rate) pairs a bucket is constructed with
BucketConfigs == {<<3, 1>>, <<5, 2>>, <<10, 1>>, <<10, 2>>}

Times == 0..(MaxTime * TicksPerSecond)
Costs == 0..MaxCost
\* the token counts time_until_tokens is asked about
Needs == 0..MaxNeed

Min(a, b) == IF a <= b THEN a ELSE b

Scaled(n) == n * TicksPerSecond

----------------------------------------------------------------------------
(* CircuitBreaker *)

CLOSED == "closed"
OPEN == "open"
HALF_OPEN == "half_open"

\* failure_threshold and recovery_timeout values a breaker is constructed with
FailureThresholds == {2, 3}
RecoveryTimeouts == {2}

\* the classes the wrapped operation raises, and the classes each one is an
\* instance of: asyncio.CancelledError derives from BaseException only
NoException == "none"
Raised == {"ValueError", "TimeoutError", "CancelledError"}
Bases(exc) ==
    IF exc = "CancelledError" THEN {"CancelledError", "BaseException"}
    ELSE {exc, "Exception", "BaseException"}

\* the default of expected_exceptions
DefaultExpectedExceptions == {"Exception"}

\* expected_exceptions values a breaker is constructed with
ExceptionFilters == {DefaultExpectedExceptions, {"TimeoutError"}}

\* except self.expected_exceptions catches exc
Caught(exc, expected) == Bases(exc) \cap expected # {}

NoStep == [op |-> "none", caller |-> Null, pre |-> CLOSED, outcome |-> "none",
           invoked |-> FALSE, exc |-> NoException]

\* CircuitBreaker.__init__ with the clock reading now
NewBreaker(threshold, timeout, fallback, now) ==
    /\ failure_threshold = threshold
    /\ recovery_timeout = timeout
    /\ has_fallback = fallback
    /\ state = CLOSED
    /\ failure_count = 0
    /\ last_failure_time = 0
    /\ last_success_time = now
    /\ inflight = {}
    /\ consecFails = 0
    /\ probes = {}
    /\ lastB = NoStep

\* the breaker of a specification that is about something else
IdleBreaker ==
    /\ NewBreaker(2, 2, FALSE, 0)
    /\ expected_exceptions = DefaultExpectedExceptions

\* _check_state lets the call through
CheckStateAdmits(st, elapsed, timeout) == st # OPEN \/ elapsed >= timeout

\* self.state after _check_state
CheckStateNext(st, elapsed, timeout) ==
    IF st = OPEN /\ elapsed >= timeout THEN HALF_OPEN ELSE st

\* self.state after _on_success
OnSuccessState(st) == IF st = HALF_OPEN THEN CLOSED ELSE st

\* _on_success that clears the count in every state
OnSuccessCountAlways(st, count) == 0

\* _on_success that clears the count after a probe only
OnSuccessCountProbeOnly(st, count) == IF st = HALF_OPEN THEN 0 ELSE count

\* self.failure_count after _on_success
OnSuccessCount(st, count) ==
    IF st = HALF_OPEN THEN 0
    ELSE IF st = CLOSED THEN 0
    ELSE count

\* _on_failure that starts the count again when the probe fails
OnFailureCountRestart(st, count) ==
    IF st = CLOSED THEN count + 1
    ELSE IF st = HALF_OPEN THEN 1
    ELSE count

\* self.failure_count after _on_failure
OnFailureCount(st, count) == IF st = CLOSED THEN count + 1 ELSE count

\* _on_failure that opens one failure late
OnFailureStateLate(st, count, threshold) ==
    IF st = CLOSED THEN (IF count > threshold THEN OPEN ELSE CLOSED)
    ELSE IF st = HALF_OPEN THEN OPEN
    ELSE st

\* self.state after _on_failure, count being the failure_count it left
OnFailureState(st, count, threshold) ==
    IF st = CLOSED THEN (IF count >= threshold THEN OPEN ELSE CLOSED)
    ELSE IF st = HALF_OPEN THEN OPEN
    ELSE st

\* execute up to the invocation of func: _check_state, then either
\* CircuitOpenError or the wrapped operation is started
Enter(c) ==
    /\ c \notin inflight
    /\ LET elapsed == clock - last_failure_time
           admit == CheckStateAdmits(state, elapsed, recovery_timeout)
       IN  /\ state' = CheckStateNext(state, elapsed, recovery_timeout)
           /\ inflight' = IF admit THEN inflight \cup {c} ELSE inflight
           /\ probes' = IF admit /\ state' = HALF_OPEN THEN probes \cup {c}
                         ELSE probes
           /\ lastB' = [op |-> "enter", caller |-> c, pre |-> state,
                        outcome |-> IF admit THEN "running" ELSE "CircuitOpenError",
                        invoked |-> admit, exc |-> NoException]
    /\ UNCHANGED <<failure_threshold, recovery_timeout, has_fallback,
                   expected_exceptions, failure_count, last_failure_time,
                   last_success_time, consecFails>>
    /\ UNCHANGED <<clock, bucketVars, concVars, keyVars, moreVars>>

\* the wrapped operation returns: _on_success, execute returns the result
OpSucceeds(c) ==
    /\ c \in inflight
    /\ inflight' = inflight \ {c}
    /\ probes' = probes \ {c}
    /\ last_success_time' = clock
    /\ state' = OnSuccessState(state)
    /\ failure_count' = OnSuccessCount(state, failure_count)
    /\ consecFails' = 0
    /\ lastB' = [op |-> "success", caller |-> c, pre |-> state,
                 outcome |-> "returned", invoked |-> FALSE, exc |-> NoException]
    /\ UNCHANGED <<failure_threshold, recovery_timeout, has_fallback,
                   expected_exceptions, last_failure_time>>
    /\ UNCHANGED <<clock, bucketVars, concVars, keyVars, moreVars>>

\* the wrapped operation raises exc, one of expected_exceptions: _on_failure,
\* then the fallback's result is returned or the exception is raised again
OpFails(c, exc) ==
    /\ c \in inflight
    /\ Caught(exc, expected_exceptions)
    /\ inflight' = inflight \ {c}
    /\ probes' = probes \ {c}
    /\ last_failure_time' = clock
    /\ failure_count' = OnFailureCount(state, failure_count)
    /\ state' = OnFailureState(state, failure_count', failure_threshold)
    /\ consecFails' = Min(consecFails + 1, failure_threshold)
    /\ lastB' = [op |-> "failure", caller |-> c, pre |-> state,
                 outcome |-> IF has_fallback THEN "fallback" ELSE "raised",
                 invoked |-> FALSE, exc |-> exc]
    /\ UNCHANGED <<failure_threshold, recovery_timeout, has_fallback,
                   expected_exceptions, last_success_time>>
    /\ UNCHANGED <<clock, bucketVars, concVars, keyVars, moreVars>>

\* the wrapped operation raises exc, which except self.expected_exceptions
\* does not catch: it leaves execute with no bookkeeping
OpFailsUncounted(c, exc) ==
    /\ c \in inflight
    /\ ~Caught(exc, expected_exceptions)
    /\ inflight' = inflight \ {c}
    /\ probes' = probes \ {c}
    /\ lastB' = [op |-> "uncounted", caller |-> c, pre |-> state,
                 outcome |-> "raised", invoked |-> FALSE, exc |-> exc]
    /\ UNCHANGED <<failure_threshold, recovery_timeout, has_fallback,
                   expected_exceptions, state, failure_count, last_failure_time,
                   last_success_time, consecFails>>
    /\ UNCHANGED <<clock, bucketVars, concVars, keyVars, moreVars>>

\* CircuitBreaker.reset
Reset ==
    /\ state' = CLOSED
    /\ failure_count' = 0
    /\ last_success_time' = clock
    /\ consecFails' = 0
    /\ lastB' = [op |-> "reset", caller |-> Null, pre |-> state,
                 outcome |-> "returned", invoked |-> FALSE, exc |-> NoException]
    /\ UNCHANGED <<failure_threshold, recovery_timeout, has_fallback,
                   expected_exceptions, last_failure_time, inflight, probes>>
    /\ UNCHANGED <<clock, bucketVars, concVars, keyVars, moreVars>>

\* CircuitBreaker.force_open
ForceOpen ==
    /\ state' = OPEN
    /\ failure_count' = failure_threshold
    /\ last_failure_time' = clock
    /\ lastB' = [op |-> "force_open", caller |-> Null, pre |-> state,
                 outcome |-> "returned", invoked |-> FALSE, exc |-> NoException]
    /\ UNCHANGED <<failure_threshold, recovery_timeout, has_fallback,
                   expected_exceptions, last_success_time, inflight, consecFails,
                   probes>>
    /\ UNCHANGED <<clock, bucketVars, concVars, keyVars, moreVars>>

\* time.time() advances
BreakerTick ==
    /\ clock < MaxBreakerTime
    /\ clock' = clock + 1
    /\ lastB' = [op |-> "tick", caller |-> Null, pre |-> state,
                 outcome |-> "none", invoked |-> FALSE, exc |-> NoException]
    /\ UNCHANGED <<failure_threshold, recovery_timeout, has_fallback,
                   expected_exceptions, state, failure_count, last_failure_time,
                   last_success_time, inflight, consecFails, probes>>
    /\ UNCHANGED <<bucketVars, concVars, keyVars, moreVars>>

----------------------------------------------------------------------------
(* API keys.  A key value "prefix.secret" is the pair <<prefix, secret>>; the  *)
(* key with id k has prefix k and secret k.  sha256 is modelled as an         *)
(* injective function: the hash of a value is the value.  Times are days.     *)

\* None in a column that holds a time, a number of days, an id
NoTime == -1
NoDays == -1
NoId == 0

Users == {"u1", "u2"}
\* the users who create keys
KeyOwners == {"u1"}
KeyIds == 1..MaxKeys

\* grace_period_days and expires_in_days a request may carry
GraceDays == {1, 2}
ExpiryDays == {NoDays, 2}

\* what a client may send in X-API-Key: nothing, a string with no ".", or
\* "prefix.secret"
NoHeader == [kind |-> "none", prefix |-> 0, secret |-> 0]
Malformed == [kind |-> "malformed", prefix |-> 0, secret |-> 0]
KeyValue(prefix, secret) == [kind |-> "key", prefix |-> prefix, secret |-> secret]
WrongSecret == 0
KeyValues == {NoHeader, Malformed}
                 \cup {KeyValue(p, x) : p \in KeyIds, x \in KeyIds \cup {WrongSecret}}

\* hashlib.sha256(key_value.encode()).hexdigest()
Hash(key_value) == key_value

\* APIKey.verify(key_value, key_hash)
Verify(key_value, key_hash) == Hash(key_value) = key_hash

\* datetime + timedelta(days=n), None when no number of days is given
PlusDays(now, n) == IF n = NoDays THEN NoTime ELSE now + n

\* last_used_at, which no operation reads, is kept for the key of the last
\* authentication only (lastK.last_used_at)
NoKeyOp == [op |-> "none", key |-> 0, ok |-> FALSE, detail |-> "", at |-> 0,
            compromised |-> FALSE, rotated |-> FALSE, last_used_at |-> NoTime]

NoKeys ==
    /\ utcnow = 0
    /\ keys = << >>
    /\ history = << >>
    /\ lastK = NoKeyOp
    /\ revoked = {}

\* the row create_api_key and rotate_api_key insert
NewKey(id, user_id, now, expires_in_days, from, grace) ==
    [id |-> id, prefix |-> id, key_hash |-> Hash(KeyValue(id, id)), user_id |-> user_id,
     expires_at |-> PlusDays(now, expires_in_days),
     is_active |-> TRUE, rotated_from_id |-> from,
     grace_period_days |-> grace, grace_period_end |-> NoTime,
     was_compromised |-> FALSE]

\* db.query(APIKey).filter(APIKey.id == api_key_id, APIKey.user_id == user_id).first()
FindKey(api_key_id, user_id) ==
    IF api_key_id \in DOMAIN keys /\ keys[api_key_id].user_id = user_id
    THEN api_key_id ELSE 0

\* the id the next generated key gets
NextKeyId == Len(keys) + 1

\* crud.create_api_key
CreateApiKey(user_id, expires_in_days) ==
    /\ NextKeyId <= MaxKeys
    /\ keys' = Append(keys, NewKey(NextKeyId, user_id, utcnow, expires_in_days,
                                   NoId, NoDays))
    /\ lastK' = [NoKeyOp EXCEPT !.op = "create", !.key = NextKeyId, !.ok = TRUE,
                                !.at = utcnow]
    /\ UNCHANGED <<utcnow, history, revoked>>
    /\ UNCHANGED <<clock, bucketVars, concVars, breakerVars, moreVars>>

\* a rotation that gives a compromised key a grace period as well
RotateOldAlwaysGrace(old_key, now, grace_period_days, was_compromised) ==
    IF was_compromised
    THEN [old_key EXCEPT !.is_active = FALSE, !.was_compromised = TRUE,
                         !.grace_period_days = grace_period_days,
                         !.grace_period_end = now + grace_period_days]
    ELSE [old_key EXCEPT !.grace_period_days = grace_period_days,
                         !.grace_period_end = now + grace_period_days]

\* the old key's row as rotate_api_key leaves it (lines 91-101)
RotateOld(old_key, now, grace_period_days, was_compromised) ==
    IF was_compromised
    THEN [old_key EXCEPT !.is_active = FALSE, !.was_compromised = TRUE,
                         !.grace_period_days = 0, !.grace_period_end = NoTime]
    ELSE [old_key EXCEPT !.grace_period_days = grace_period_days,
                         !.grace_period_end = now + grace_period_days]

\* a history row whose grace_period_end is computed from the days instead of
\* copied from the old key
HistoryRecordComputedEnd(old_key, now, rotated_by_user_id, was_compromised) ==
    [api_key_id |-> old_key.id, previous_prefix |-> old_key.prefix,
     rotation_date |-> now, rotated_by_user_id |-> rotated_by_user_id,
     reason |-> IF was_compromised THEN "Compromised key" ELSE "Routine rotation",
     grace_period_days |-> old_key.grace_period_days,
     grace_period_end |-> now + old_key.grace_period_days,
     is_compromised |-> was_compromised]

\* the APIKeyRotationHistory row of a rotation, old_key being the old key's
\* row after the rotation
HistoryRecord(old_key, now, rotated_by_user_id, was_compromised) ==
    [api_key_id |-> old_key.id, previous_prefix |-> old_key.prefix,
     rotation_date |-> now, rotated_by_user_id |-> rotated_by_user_id,
     reason |-> IF was_compromised THEN "Compromised key" ELSE "Routine rotation",
     grace_period_days |-> old_key.grace_period_days,
     grace_period_end |-> old_key.grace_period_end,
     is_compromised |-> was_compromised]

\* crud.rotate_api_key; name and scopes are not modelled
RotateApiKey(api_key_id, user_id, expires_in_days, grace_period_days, was_compromised) ==
    LET found == FindKey(api_key_id, user_id)
    IN  IF found = 0
        THEN \* ValueError("API key not found")
             /\ lastK' = [NoKeyOp EXCEPT !.op = "rotate", !.key = api_key_id,
                                         !.detail = "API key not found",
                                         !.at = utcnow,
                                         !.compromised = was_compromised]
             /\ UNCHANGED <<utcnow, keys, history, revoked>>
             /\ UNCHANGED <<clock, bucketVars, concVars, breakerVars, moreVars>>
        ELSE LET old_key == RotateOld(keys[found], utcnow, grace_period_days,
                                      was_compromised)
                 new_key == NewKey(NextKeyId, user_id, utcnow, expires_in_days,
                                   found, old_key.grace_period_days)
             IN  /\ NextKeyId <= MaxKeys
                 /\ keys' = Append([keys EXCEPT ![found] = old_key], new_key)
                 /\ history' = Append(history,
                                      HistoryRecord(old_key, utcnow, user_id,
                                                    was_compromised))
                 /\ lastK' = [NoKeyOp EXCEPT !.op = "rotate", !.key = found,
                                             !.ok = TRUE, !.at = utcnow,
                                             !.compromised = was_compromised]
                 /\ UNCHANGED <<utcnow, revoked>>
                 /\ UNCHANGED <<clock, bucketVars, concVars, breakerVars, moreVars>>

\* crud.deactivate_api_key
DeactivateApiKey(api_key_id, user_id) ==
    LET found == FindKey(api_key_id, user_id)
    IN  /\ keys' = IF found = 0 THEN keys
                   ELSE [keys EXCEPT ![found].is_active = FALSE]
        /\ lastK' = [NoKeyOp EXCEPT !.op = "deactivate", !.key = api_key_id,
                                    !.ok = found # 0, !.at = utcnow]
        /\ revoked' = IF found = 0 THEN revoked ELSE revoked \cup {found}
        /\ UNCHANGED <<utcnow, history>>
        /\ UNCHANGED <<clock, bucketVars, concVars, breakerVars, moreVars>>

\* the key with the prefix of the value, 0 if there is none
KeyByPrefix(prefix) ==
    IF \E k \in DOMAIN keys : keys[k].prefix = prefix
    THEN CHOOSE k \in DOMAIN keys : keys[k].prefix = prefix
    ELSE 0

\* core.auth.api_key.APIKey.is_in_grace_period at the time now
APIKeyIsInGracePeriod(key, now) ==
    IF key.grace_period_end = NoTime THEN FALSE
    ELSE now <= key.grace_period_end

\* models.api_key.APIKey.is_in_grace_period at the time now
ModelIsInGracePeriod(key, now) ==
    IF key.grace_period_end = NoTime THEN FALSE
    ELSE key.grace_period_end > now

\* the grace period test of get_current_user_from_api_key (line 297)
GracePeriodCheck(key, now) ==
    key.grace_period_end # NoTime /\ now <= key.grace_period_end

\* the check of lines 293-303 passes: the key is active or within its grace
\* period
ActiveOrInGrace(key, now) == key.is_active \/ GracePeriodCheck(key, now)

\* the check of lines 305-310 fails: the key is expired
Expired(key, now) == key.expires_at # NoTime /\ now > key.expires_at

\* the detail of the 401 get_current_user_from_api_key answers, "" when it
\* returns the user
AuthDetail(api_key, now) ==
    IF api_key = NoHeader THEN "API key is required"
    ELSE IF api_key.kind = "malformed" THEN "Invalid API key format"
    ELSE LET k == KeyByPrefix(api_key.prefix)
         IN  IF k = 0 THEN "Invalid API key"
             ELSE IF ~Verify(api_key, keys[k].key_hash) THEN "Invalid API key"
             ELSE IF ~ActiveOrInGrace(keys[k], now) THEN "API key is inactive"
             ELSE IF Expired(keys[k], now) THEN "API key is expired"
             ELSE ""

\* core.auth.api_key.get_current_user_from_api_key; the owner of a key always
\* exists (user rows are deleted with their keys)
Authenticate(api_key) ==
    LET detail == AuthDetail(api_key, utcnow)
        k == IF api_key.kind = "key" THEN KeyByPrefix(api_key.prefix) ELSE 0
    IN  /\ keys' = keys
        /\ lastK' = [NoKeyOp EXCEPT
                        !.last_used_at = IF detail = "" THEN utcnow ELSE NoTime,
                        !.op = "auth", !.key = k, !.ok = (detail = ""),
                        !.detail = detail, !.at = utcnow,
                        !.rotated = /\ detail = ""
                                    /\ keys[k].grace_period_end # NoTime
                                    /\ utcnow <= keys[k].grace_period_end]
        /\ UNCHANGED <<utcnow, history, revoked>>
        /\ UNCHANGED <<clock, bucketVars, concVars, breakerVars, moreVars>>

\* a day passes
NextDay ==
    /\ utcnow < MaxDay
    /\ utcnow' = utcnow + 1
    /\ lastK' = [NoKeyOp EXCEPT !.op = "day", !.at = utcnow + 1]
    /\ UNCHANGED <<keys, history, revoked>>
    /\ UNCHANGED <<clock, bucketVars, concVars, breakerVars, moreVars>>

----------------------------------------------------------------------------
(* Scope authorization.  A list of scopes is modelled as the set of its      *)
(* members.                                                                  *)

ScopeNames == {"*", "read", "write", "api_keys:write"}

\* the scopes an endpoint may require
RequiredScopes == ScopeNames \ {"*"}

\* the users get_current_user_from_api_key may return
ScopeUsers == [is_admin : BOOLEAN, scopes : SUBSET ScopeNames]

NoScopeCheck == [op |-> "none", required |-> {}, granted |-> FALSE, missing |-> {}]

\* core/auth/scope.py: require_scope(required_scopes) -> scope_dependency;
\* the scopes the user lacks, {} when the user is returned
ScopeDependency(user, required_scopes) ==
    IF required_scopes = {} THEN {}
    ELSE IF user.is_admin THEN {}
    ELSE LET user_scopes == IF user.scopes = {} THEN {"read"} ELSE user.scopes
         IN  {scope \in required_scopes : scope \notin user_scopes}

\* core/auth.py: require_scope(required_scope) -> scope_validator; TRUE when
\* the user is returned, FALSE when AuthorizationError is raised
ScopeValidator(user, required_scope) ==
    IF "*" \in user.scopes THEN TRUE
    ELSE IF required_scope \in user.scopes THEN TRUE
    ELSE FALSE

\* a request to an endpoint that depends on require_scope(required_scopes) of
\* core/auth/scope.py
RequireScope(required_scopes) ==
    LET missing_scopes == ScopeDependency(current_user, required_scopes)
    IN  /\ lastS' = [op |-> "scope_dependency", required |-> required_scopes,
                     granted |-> (missing_scopes = {}), missing |-> missing_scopes]
        /\ UNCHANGED <<current_user, registryVars, limitVars, batchVars, spanVars>>
        /\ UNCHANGED <<clock, bucketVars, concVars, breakerVars, keyVars>>

\* a request to an endpoint that depends on require_scope(required_scope) of
\* core/auth.py
RequireScopeLegacy(required_scope) ==
    LET ok == ScopeValidator(current_user, required_scope)
    IN  /\ lastS' = [op |-> "scope_validator", required |-> {required_scope},
                     granted |-> ok,
                     missing |-> IF ok THEN {} ELSE {required_scope}]
        /\ UNCHANGED <<current_user, registryVars, limitVars, batchVars, spanVars>>
        /\ UNCHANGED <<clock, bucketVars, concVars, breakerVars, keyVars>>

\* another user is authenticated
Login(user) ==
    /\ current_user' = user
    /\ lastS' = NoScopeCheck
    /\ UNCHANGED <<registryVars, limitVars, batchVars, spanVars>>
    /\ UNCHANGED <<clock, bucketVars, concVars, breakerVars, keyVars>>

IdleScope ==
    /\ current_user = [is_admin |-> FALSE, scopes |-> {}]
    /\ lastS = NoScopeCheck

----------------------------------------------------------------------------
(* RateLimitMiddleware: the requests it sees and what it remembers of them *)

Hosts == {"10.0.0.1"}

\* what a request carries in X-API-Key
LimitHeaders == {NoHeader, KeyValue(1, 1)}

Paths == {"/test-rate-limit", "/another-endpoint"}

\* (RATE_LIMIT_MAX_REQUESTS, RATE_LIMIT_WINDOW) pairs of the settings; the
\* refill rate RATE_LIMIT_MAX_REQUESTS / RATE_LIMIT_WINDOW is a whole number
\* of tokens per second in each
LimitConfigs == {<<2, 1>>, <<2, 2>>, <<4, 2>>}

\* RateLimitMiddleware._get_client_id: the host, or "host:prefix" where
\* prefix is what precedes the first "." of the X-API-Key header
GetClientId(host, api_key) ==
    IF api_key = NoHeader THEN host
    ELSE host \o ":" \o ToString(api_key.prefix)

LimitClients == {GetClientId(h, k) : h \in Hosts, k \in LimitHeaders}

\* no 429 is the last answer the client got
NoDenial == [since |-> -1, retry_after |-> 0, path |-> ""]

NoRequest == [op |-> "none", client |-> "", path |-> "", status |-> 0,
              retry_after |-> 0, wait_num |-> 0, waited |-> -1, prev_retry_after |-> 0,
              new_path |-> FALSE, limited_elsewhere |-> FALSE]

IdleLimit ==
    /\ window = 1
    /\ denied = [c \in LimitClients |-> NoDenial]
    /\ seen = [c \in LimitClients |-> {}]
    /\ lastL = NoRequest

\* the registry holds the breaker that was constructed first
IdleRegistry == registered = 1

\* request batching: the providers requests are made for, the requests (their
\* numbers stand for their prompts), the max_batch_size and max_wait_time
\* arguments (in sleeps of 0.01 s) and how long asyncio.sleep(0.01) takes
Providers == {"openai", "anthropic"}
Requests == 1..MaxRequests
MaxBatchSizes == {1, 2}
MaxWaitTimes == {1, 2}
SleepTimes == {1, 2}

\* batch_key = (provider, model, temperature, max_tokens), for one model and
\* the default options
BatchKey(provider) == provider

NoBatchStep == [op |-> "none", key |-> "", size |-> 0, max_batch_size |-> 0,
                outcome |-> ""]

\* no request has been made
IdleBatch ==
    /\ active_batches = << >>
    /\ collecting = << >>
    /\ next_request = 1
    /\ running = {}
    /\ futures = << >>
    /\ lastQ = NoBatchStep

\* no take has been admitted
IdleSpan == admits = << >>

\* the components a specification is not about
IdleMore == IdleRegistry /\ IdleScope /\ IdleLimit /\ IdleBatch /\ IdleSpan

----------------------------------------------------------------------------
(* TokenBucket *)

\* dict.get(key, default)
Get(d, k, default) == IF k \in DOMAIN d THEN d[k] ELSE default

\* an assignment that writes the value under every key
PutEvery(d, k, v) == [x \in (DOMAIN d) \cup {k} |-> v]

\* dict[key] = value
Put(d, k, v) == [x \in (DOMAIN d) \cup {k} |-> IF x = k THEN v ELSE d[x]]

\* a refill that forgets the capacity ceiling
RefillTokensNoCeiling(tk, ts, cap, rate, client_id, now) ==
    IF client_id \notin DOMAIN ts
    THEN Put(tk, client_id, Scaled(cap))
    ELSE Put(tk, client_id, Get(tk, client_id, 0) + (now - ts[client_id]) * rate)

\* self._tokens after self._refill(client_id) with time_function() = now
RefillTokens(tk, ts, cap, rate, client_id, now) ==
    IF client_id \notin DOMAIN ts
    THEN Put(tk, client_id, Scaled(cap))
    ELSE LET elapsed == now - ts[client_id]
             current_tokens == Get(tk, client_id, 0)
             new_tokens == elapsed * rate
         IN  Put(tk, client_id, Min(Scaled(cap), current_tokens + new_tokens))

\* a refill that stamps the client when it is first seen only
RefillTimestampsFirstOnly(ts, client_id, now) ==
    IF client_id \in DOMAIN ts THEN ts ELSE Put(ts, client_id, now)

\* self._timestamps after self._refill(client_id)
RefillTimestamps(ts, client_id, now) == Put(ts, client_id, now)

\* the token count take() writes when it admits the call
Consume(current_tokens, cost) == current_tokens - Scaled(cost)

\* a take that wants more than the cost to be left
AdmitsStrictly(current_tokens, cost) == Scaled(cost) < current_tokens

\* the condition under which take() admits the call
Admits(current_tokens, cost) == Scaled(cost) <= current_tokens

\* a take that subtracts the cost from the count also when it denies
TakeTokensAlways(tk, cap, client_id, cost) ==
    Put(tk, client_id, Consume(Get(tk, client_id, Scaled(cap)), cost))

\* self._tokens after the decision of take(), tk being self._tokens after
\* the refill
TakeTokens(tk, cap, client_id, cost) ==
    LET current_tokens == Get(tk, client_id, Scaled(cap))
    IN  IF Admits(current_tokens, cost)
        THEN Put(tk, client_id, Consume(current_tokens, cost))
        ELSE tk

\* which way the _refill of a call went: the first observation of the
\* client, no time elapsed, the clock read earlier than last time, tokens
\* added up to the capacity ceiling, or tokens added below it
RefillCase(client_id, now) ==
    IF client_id \notin DOMAIN timestamps THEN "first"
    ELSE LET elapsed == now - timestamps[client_id]
         IN  IF elapsed = 0 THEN "same"
             ELSE IF elapsed < 0 THEN "back"
             ELSE IF tokens[client_id] + elapsed * refill_rate >= Scaled(capacity)
                  THEN "capped"
             ELSE "partial"

\* how a run of unit-cost takes at one clock reading starts: on a client
\* never seen ("fresh"), on a drained bucket capacity / refill_rate seconds
\* later ("drained"), on a bucket otherwise full ("full"), or not at all
StreakStart(client_id, now, refilled) ==
    IF client_id \notin DOMAIN timestamps THEN "fresh"
    ELSE IF tokens[client_id] = 0
            /\ (now - timestamps[client_id]) * refill_rate = Scaled(capacity)
         THEN "drained"
    ELSE IF refilled = Scaled(capacity) THEN "full"
    ELSE "none"

NoStreak == [client |-> Null, n |-> -1, start |-> "none"]

\* streak after a take: counts the unit-cost takes admitted one after the
\* other at a single clock reading, starting at a full bucket
NextStreak(client_id, cost, now, refilled, ok) ==
    LET same == /\ streak.client = client_id
                /\ streak.n >= 0
                /\ client_id \in DOMAIN timestamps
                /\ now = timestamps[client_id]
        start == StreakStart(client_id, now, refilled)
    IN  IF cost # 1 THEN NoStreak
        ELSE IF same
             THEN [streak EXCEPT !.n = IF ok THEN streak.n + 1 ELSE streak.n]
        ELSE IF start # "none"
             THEN [client |-> client_id, n |-> IF ok THEN 1 ELSE 0, start |-> start]
        ELSE NoStreak

\* streak after a call that takes nothing
KeepStreak(client_id, now) ==
    IF /\ streak.client = client_id
       /\ client_id \in DOMAIN timestamps
       /\ now = timestamps[client_id]
    THEN streak
    ELSE NoStreak

\* TokenBucket.take(client_id, tokens=cost)
Take(client_id, cost, now) ==
    LET tk1 == RefillTokens(tokens, timestamps, capacity, refill_rate, client_id, now)
        current_tokens == Get(tk1, client_id, Scaled(capacity))
        ok == Admits(current_tokens, cost)
    IN  /\ timestamps' = RefillTimestamps(timestamps, client_id, now)
        /\ tokens' = TakeTokens(tk1, capacity, client_id, cost)
        /\ last' = [op |-> "take", client |-> client_id, cost |-> cost, now |-> now,
                    refill |-> RefillCase(client_id, now),
                    refilled |-> current_tokens, result |-> ok, num |-> 0,
                    error |-> ""]
        /\ streak' = NextStreak(client_id, cost, now, current_tokens, ok)
        /\ UNCHANGED <<capacity, refill_rate, clock, concVars, breakerVars, keyVars, moreVars>>

\* TokenBucket.get_tokens(client_id); last.num is the returned count
GetTokens(client_id, now) ==
    LET tk1 == RefillTokens(tokens, timestamps, capacity, refill_rate, client_id, now)
        current_tokens == Get(tk1, client_id, Scaled(capacity))
    IN  /\ timestamps' = RefillTimestamps(timestamps, client_id, now)
        /\ tokens' = tk1
        /\ last' = [op |-> "get_tokens", client |-> client_id, cost |-> 0, now |-> now,
                    refill |-> RefillCase(client_id, now),
                    refilled |-> current_tokens, result |-> FALSE,
                    num |-> current_tokens, error |-> ""]
        /\ streak' = KeepStreak(client_id, now)
        /\ UNCHANGED <<capacity, refill_rate, clock, concVars, breakerVars, keyVars, moreVars>>

\* a time_until_tokens that forgets the tokens the client already has
SecondsNeededNumWhole(current_tokens, tokens_needed) ==
    IF tokens_needed <= current_tokens THEN 0 ELSE tokens_needed

\* the numerator of the seconds time_until_tokens returns for tokens_needed
\* (a scaled count, as current_tokens); the denominator is refill_rate *
\* TicksPerSecond
SecondsNeededNum(current_tokens, tokens_needed) ==
    IF tokens_needed <= current_tokens THEN 0 ELSE tokens_needed - current_tokens

\* what the division additional_tokens_needed / self.refill_rate raises, ""
\* when it yields a number or is not reached
DivisionError(current_tokens, tokens_needed, rate) ==
    IF tokens_needed > current_tokens /\ rate = 0 THEN "ZeroDivisionError" ELSE ""

\* TokenBucket.time_until_tokens(client_id, tokens=need); last.num is the
\* numerator of the returned seconds
TimeUntilTokens(client_id, need, now) ==
    LET tk1 == RefillTokens(tokens, timestamps, capacity, refill_rate, client_id, now)
        current_tokens == Get(tk1, client_id, Scaled(capacity))
    IN  /\ timestamps' = RefillTimestamps(timestamps, client_id, now)
        /\ tokens' = tk1
        /\ last' = [op |-> "time_until_tokens", client |-> client_id, cost |-> need,
                    now |-> now, refill |-> RefillCase(client_id, now),
                    refilled |-> current_tokens, result |-> FALSE,
                    num |-> SecondsNeededNum(current_tokens, Scaled(need)),
                    error |-> DivisionError(current_tokens, Scaled(need),
                                            refill_rate)]
        /\ streak' = KeepStreak(client_id, now)
        /\ UNCHANGED <<capacity, refill_rate, clock, concVars, breakerVars, keyVars, moreVars>>

\* TokenBucket.get_next_refill_time(client_id): the time until one token more
\* than the count stored before the refill, added to now.timestamp();
\* last.num is the numerator of the seconds added to last.now
GetNextRefillTime(client_id, now) ==
    LET tokens_needed == Get(tokens, client_id, 0) + Scaled(1)
        tk1 == RefillTokens(tokens, timestamps, capacity, refill_rate, client_id, now)
        current_tokens == Get(tk1, client_id, Scaled(capacity))
    IN  /\ timestamps' = RefillTimestamps(timestamps, client_id, now)
        /\ tokens' = tk1
        /\ last' = [op |-> "get_next_refill_time", client |-> client_id, cost |-> 0,
                    now |-> now, refill |-> RefillCase(client_id, now),
                    refilled |-> current_tokens, result |-> FALSE,
                    num |-> SecondsNeededNum(current_tokens, tokens_needed),
                    error |-> DivisionError(current_tokens, tokens_needed,
                                            refill_rate)]
        /\ streak' = KeepStreak(client_id, now)
        /\ UNCHANGED <<capacity, refill_rate, clock, concVars, breakerVars, keyVars, moreVars>>

NoCall == [op |-> "none", client |-> Null, cost |-> 0, now |-> 0, refill |-> "none",
           refilled |-> 0, result |-> FALSE, num |-> 0, error |-> ""]

InitConc ==
    /\ tpc = [t \in Callers |-> "idle"]
    /\ tcur = [t \in Callers |-> 0]
    /\ admitted = 0
    /\ firstSeen = -1

IdleBucket ==
    /\ capacity = 3
    /\ refill_rate = 1
    /\ tokens = << >>
    /\ timestamps = << >>
    /\ last = NoCall
    /\ streak = NoStreak

\* TokenBucket.__init__
InitBucket ==
    /\ clock = 0
    /\ InitConc
    /\ IdleBreaker
    /\ NoKeys
    /\ IdleMore
    /\ \E cfg \in BucketConfigs : capacity = cfg[1] /\ refill_rate = cfg[2]
    /\ tokens = << >>
    /\ timestamps = << >>
    /\ last = NoCall
    /\ streak = NoStreak

DoTake == \E c \in Clients, cost \in Costs, now \in Times : Take(c, cost, now)
DoGetTokens == \E c \in Clients, now \in Times : GetTokens(c, now)
DoTimeUntilTokens == \E c \in Clients, need \in Needs, now \in Times :
                         TimeUntilTokens(c, need, now)
DoGetNextRefillTime == \E c \in Clients, now \in Times : GetNextRefillTime(c, now)

NextBucket == DoTake \/ DoGetTokens \/ DoTimeUntilTokens \/ DoGetNextRefillTime

SpecBucket == InitBucket /\ [][NextBucket]_vars

\* a bucket on which only take is called
NextTake == DoTake

SpecTake == InitBucket /\ [][NextTake]_vars

----------------------------------------------------------------------------
(* Buckets constructed with any configuration: TokenBucket.__init__ stores  *)
(* float(capacity) and float(refill_rate) and checks neither.               *)

\* (capacity, refill_rate) pairs: a sound one, refill_rate = 0, capacity < 0,
\* refill_rate < 0
AnyConfigs == {<<3, 1>>, <<3, 0>>, <<-1, 1>>, <<3, -1>>}

InitConfig ==
    /\ clock = 0
    /\ InitConc
    /\ IdleBreaker
    /\ NoKeys
    /\ IdleMore
    /\ \E cfg \in AnyConfigs : capacity = cfg[1] /\ refill_rate = cfg[2]
    /\ tokens = << >>
    /\ timestamps = << >>
    /\ last = NoCall
    /\ streak = NoStreak

SpecConfig == InitConfig /\ [][NextBucket]_vars

----------------------------------------------------------------------------
(* One client taking one token at a time from a bucket whose clock never goes *)
(* back: take(client_id) calls made one after the other, each reading the     *)
(* clock once.                                                                *)

\* TokenBucket.take(client_id) with time_function() = clock; admits counts
\* the calls that returned True at each clock reading
TakeOne(client_id) ==
    LET tk1 == RefillTokens(tokens, timestamps, capacity, refill_rate, client_id,
                            clock)
        current_tokens == Get(tk1, client_id, Scaled(capacity))
        ok == Admits(current_tokens, 1)
    IN  /\ timestamps' = RefillTimestamps(timestamps, client_id, clock)
        /\ tokens' = TakeTokens(tk1, capacity, client_id, 1)
        /\ last' = [op |-> "take", client |-> client_id, cost |-> 1, now |-> clock,
                    refill |-> RefillCase(client_id, clock),
                    refilled |-> current_tokens, result |-> ok, num |-> 0,
                    error |-> ""]
        /\ streak' = NextStreak(client_id, 1, clock, current_tokens, ok)
        /\ admits' = IF ok THEN Put(admits, clock, Get(admits, clock, 0) + 1)
                      ELSE admits
        /\ UNCHANGED <<capacity, refill_rate, clock>>
        /\ UNCHANGED <<concVars, breakerVars, keyVars, registryVars, scopeVars,
                       limitVars, batchVars>>

\* time_function() advances by a tick
SpanTick ==
    /\ clock < MaxSpanTime * TicksPerSecond
    /\ clock' = clock + 1
    /\ UNCHANGED <<bucketVars, concVars, breakerVars, keyVars, moreVars>>

NextSpan == (\E c \in Clients : TakeOne(c)) \/ SpanTick

SpecSpan == InitBucket /\ [][NextSpan]_vars

----------------------------------------------------------------------------
(* One bucket shared by two clients *)

FrameClients == {"a", "b"}
FrameTimes == 0..(MaxFrameTime * TicksPerSecond)
FrameCosts == {1, 2}

NextFrame ==
    \/ \E c \in FrameClients, cost \in FrameCosts, now \in FrameTimes :
           Take(c, cost, now)
    \/ \E c \in FrameClients, now \in FrameTimes : GetTokens(c, now)
    \/ \E c \in FrameClients, need \in FrameCosts, now \in FrameTimes :
           TimeUntilTokens(c, need, now)
    \/ \E c \in FrameClients, now \in FrameTimes : GetNextRefillTime(c, now)

SpecFrame == InitBucket /\ [][NextFrame]_vars

----------------------------------------------------------------------------
(* RateLimitMiddleware.  The bucket is TokenBucket(capacity =               *)
(* RATE_LIMIT_MAX_REQUESTS, refill_rate = RATE_LIMIT_MAX_REQUESTS /         *)
(* RATE_LIMIT_WINDOW, time_function = datetime.now): clock is the local     *)
(* wall-clock time datetime.now returns, which the system may set back.     *)
(* A request is handled at one clock reading.                               *)

\* the Retry-After header of a 429: str(settings.RATE_LIMIT_WINDOW)
RetryAfter(wait_num) == window

\* RateLimitMiddleware.dispatch for a request of host with header api_key to
\* path: take(client_id), then the 429 or the response of the endpoint; the
\* get_tokens and get_next_refill_time calls that fill the headers refill at
\* the same clock reading and change nothing
Dispatch(host, api_key, path) ==
    LET client_id == GetClientId(host, api_key)
        tk1 == RefillTokens(tokens, timestamps, capacity, refill_rate, client_id, clock)
        current_tokens == Get(tk1, client_id, Scaled(capacity))
        ok == Admits(current_tokens, 1)
        wait_num == SecondsNeededNum(current_tokens, Scaled(1))
    IN  /\ timestamps' = RefillTimestamps(timestamps, client_id, clock)
        /\ tokens' = TakeTokens(tk1, capacity, client_id, 1)
        /\ denied' = [denied EXCEPT ![client_id] =
                         IF ok THEN NoDenial
                         ELSE [since |-> 0, retry_after |-> RetryAfter(wait_num),
                               path |-> path]]
        /\ seen' = [seen EXCEPT ![client_id] = @ \cup {path}]
        /\ lastL' = [op |-> "dispatch", client |-> client_id, path |-> path,
                     status |-> IF ok THEN 200 ELSE 429,
                     retry_after |-> IF ok THEN 0 ELSE RetryAfter(wait_num),
                     wait_num |-> wait_num,
                     waited |-> denied[client_id].since,
                     prev_retry_after |-> denied[client_id].retry_after,
                     new_path |-> path \notin seen[client_id],
                     limited_elsewhere |-> /\ denied[client_id].since >= 0
                                           /\ denied[client_id].path # path]
        /\ UNCHANGED <<capacity, refill_rate, last, streak, clock, window>>
        /\ UNCHANGED <<concVars, breakerVars, keyVars, registryVars, scopeVars, batchVars, spanVars>>

\* a tick of time passes: the wall clock advances, and so does the time
\* each client has waited since its 429 (counted up to the longest
\* Retry-After, MaxLimitTime seconds)
LimitTick ==
    /\ clock < MaxLimitTime * TicksPerSecond
    /\ clock' = clock + 1
    /\ denied' = [c \in LimitClients |->
                     IF denied[c].since >= 0
                     THEN [denied[c] EXCEPT
                              !.since = Min(@ + 1, MaxLimitTime * TicksPerSecond)]
                     ELSE denied[c]]
    /\ lastL' = [NoRequest EXCEPT !.op = "tick"]
    /\ UNCHANGED <<bucketVars, window, seen>>
    /\ UNCHANGED <<concVars, breakerVars, keyVars, registryVars, scopeVars, batchVars, spanVars>>

\* the wall clock is set back (end of daylight saving time, a clock
\* correction): datetime.now returns an earlier time than before
StepBack ==
    /\ clock > 0
    /\ \E t \in 0..(clock - 1) : clock' = t
    /\ lastL' = [NoRequest EXCEPT !.op = "step_back"]
    /\ UNCHANGED <<bucketVars, window, denied, seen>>
    /\ UNCHANGED <<concVars, breakerVars, keyVars, registryVars, scopeVars, batchVars, spanVars>>

\* RateLimitMiddleware.__init__
InitLimit ==
    /\ clock = 0
    /\ InitConc
    /\ IdleBreaker
    /\ NoKeys
    /\ IdleRegistry
    /\ IdleScope
    /\ IdleBatch
    /\ IdleSpan
    /\ \E cfg \in LimitConfigs :
           /\ capacity = cfg[1]
           /\ refill_rate = cfg[1] \div cfg[2]
           /\ window = cfg[2]
    /\ tokens = << >>
    /\ timestamps = << >>
    /\ last = NoCall
    /\ streak = NoStreak
    /\ denied = [c \in LimitClients |-> NoDenial]
    /\ seen = [c \in LimitClients |-> {}]
    /\ lastL = NoRequest

NextLimit ==
    \/ \E host \in Hosts, api_key \in LimitHeaders, path \in Paths :
           Dispatch(host, api_key, path)
    \/ LimitTick
    \/ StepBack

SpecLimit == InitLimit /\ [][NextLimit]_vars

----------------------------------------------------------------------------
(* Request batching.  batch_requests and _process_batch are coroutines of   *)
(* one event loop: each runs without interruption up to its next await.     *)
(* batch_locks[batch_key] is free whenever a coroutine reaches it, as no     *)
(* coroutine awaits while it holds the lock.                                 *)

\* del dict[key]
Del(d, k) == [x \in (DOMAIN d) \ {k} |-> d[x]]

\* the condition of the while loop of _process_batch (lines 95-98)
KeepsWaiting(batch, max_batch_size, waited, max_wait_time) ==
    Len(batch) < max_batch_size /\ waited < max_wait_time

\* batch_requests up to await result_future: the request joins the batch of
\* its key; the first request of a batch creates the batch and the
\* _process_batch task, with its own max_batch_size and max_wait_time
BatchRequests(provider, max_batch_size, max_wait_time) ==
    LET batch_key == BatchKey(provider)
        request == next_request
        created == batch_key \notin DOMAIN active_batches
        batch == Get(active_batches, batch_key, << >>)
    IN  /\ next_request <= MaxRequests
        /\ next_request' = next_request + 1
        /\ collecting' = IF created
                          THEN Put(collecting, batch_key,
                                   [max_batch_size |-> max_batch_size,
                                    max_wait_time |-> max_wait_time,
                                    waited |-> 0])
                          ELSE collecting
        /\ active_batches' = Put(active_batches, batch_key, Append(batch, request))
        /\ futures' = Put(futures, request, "pending")
        /\ lastQ' = [op |-> "batch_requests", key |-> batch_key,
                     size |-> Len(batch) + 1,
                     max_batch_size |-> collecting'[batch_key].max_batch_size,
                     outcome |-> IF created THEN "created" ELSE "joined"]
        /\ UNCHANGED running
        /\ UNCHANGED <<clock, bucketVars, concVars, breakerVars, keyVars,
                       registryVars, scopeVars, limitVars, spanVars>>

\* _process_batch finds the condition of its loop true and sleeps
ProcessBatchSleeps(batch_key, slept) ==
    /\ batch_key \in DOMAIN collecting
    /\ LET task == collecting[batch_key]
       IN  /\ KeepsWaiting(active_batches[batch_key], task.max_batch_size,
                           task.waited, task.max_wait_time)
           /\ collecting' = [collecting EXCEPT ![batch_key].waited =
                                Min(task.waited + slept, task.max_wait_time)]
           /\ lastQ' = [op |-> "sleep", key |-> batch_key,
                        size |-> Len(active_batches[batch_key]),
                        max_batch_size |-> task.max_batch_size, outcome |-> ""]
    /\ UNCHANGED <<active_batches, next_request, running, futures>>
    /\ UNCHANGED <<clock, bucketVars, concVars, breakerVars, keyVars,
                   registryVars, scopeVars, limitVars, spanVars>>

\* _process_batch finds the condition of its loop false: it takes the batch
\* out of active_batches and hands its prompts to batch_fn (lines 101-127)
ProcessBatchTakes(batch_key) ==
    /\ batch_key \in DOMAIN collecting
    /\ LET task == collecting[batch_key]
           batch == active_batches[batch_key]
       IN  /\ ~KeepsWaiting(batch, task.max_batch_size, task.waited,
                            task.max_wait_time)
           /\ active_batches' = Del(active_batches, batch_key)
           /\ collecting' = Del(collecting, batch_key)
           /\ running' = running \cup {batch}
           /\ lastQ' = [op |-> "batch_fn", key |-> batch_key, size |-> Len(batch),
                        max_batch_size |-> task.max_batch_size, outcome |-> "called"]
    /\ UNCHANGED <<next_request, futures>>
    /\ UNCHANGED <<clock, bucketVars, concVars, breakerVars, keyVars,
                   registryVars, scopeVars, limitVars, spanVars>>

\* the state of result_future after batch_fn: a result for each request, or
\* the same exception for all (a wrong number of results, or batch_fn raised)
FutureAfter(outcome) == IF outcome = "results" THEN "result" ELSE "exception"

\* batch_fn returns or raises and _process_batch completes the futures of the
\* batch (lines 129-149)
BatchFnEnds(batch, outcome) ==
    /\ batch \in running
    /\ running' = running \ {batch}
    /\ futures' = [r \in DOMAIN futures |->
                      IF (\E i \in 1..Len(batch) : batch[i] = r)
                            /\ futures[r] = "pending"
                      THEN FutureAfter(outcome) ELSE futures[r]]
    /\ lastQ' = [op |-> "done", key |-> "", size |-> Len(batch),
                 max_batch_size |-> 0, outcome |-> outcome]
    /\ UNCHANGED <<active_batches, collecting, next_request>>
    /\ UNCHANGED <<clock, bucketVars, concVars, breakerVars, keyVars,
                   registryVars, scopeVars, limitVars, spanVars>>

InitBatch ==
    /\ clock = 0
    /\ IdleBucket
    /\ InitConc
    /\ IdleBreaker
    /\ NoKeys
    /\ IdleRegistry
    /\ IdleScope
    /\ IdleLimit
    /\ IdleSpan
    /\ IdleBatch

NextBatch ==
    \/ \E provider \in Providers, size \in MaxBatchSizes, wait \in MaxWaitTimes :
           BatchRequests(provider, size, wait)
    \/ \E batch_key \in Providers, slept \in SleepTimes :
           ProcessBatchSleeps(batch_key, slept)
    \/ \E batch_key \in Providers : ProcessBatchTakes(batch_key)
    \/ \E batch \in running, outcome \in {"results", "wrong number", "raises"} :
           BatchFnEnds(batch, outcome)

SpecBatch == InitBatch /\ [][NextBatch]_vars

----------------------------------------------------------------------------
(* take(client_id) called by several request handlers at once.  TokenBucket *)
(* holds no lock: a caller runs _refill (line 178), reads the count (line   *)
(* 181) and decides and writes (lines 183-186), and the other callers may   *)
(* run between these steps.                                                 *)

ConcClient == "a"

\* take, line 178: self._refill(client_id)
TakeRefill(t) ==
    /\ tpc[t] = "idle"
    /\ admitted < Scaled(MaxAdmitted)
    /\ tokens' = RefillTokens(tokens, timestamps, capacity, refill_rate, ConcClient, clock)
    /\ timestamps' = RefillTimestamps(timestamps, ConcClient, clock)
    /\ firstSeen' = IF firstSeen < 0 THEN clock ELSE firstSeen
    /\ tpc' = [tpc EXCEPT ![t] = "read"]
    /\ UNCHANGED <<capacity, refill_rate, last, streak, clock, tcur, admitted, breakerVars,
                   keyVars, moreVars>>

\* take, line 181: current_tokens = self._tokens.get(client_id, self.capacity)
TakeRead(t) ==
    /\ tpc[t] = "read"
    /\ tcur' = [tcur EXCEPT ![t] = Get(tokens, ConcClient, Scaled(capacity))]
    /\ tpc' = [tpc EXCEPT ![t] = "decide"]
    /\ UNCHANGED <<bucketVars, clock, admitted, firstSeen, breakerVars, keyVars, moreVars>>

\* take, lines 183-186, with tokens = 1
TakeDecide(t) ==
    /\ tpc[t] = "decide"
    /\ IF Admits(tcur[t], 1)
       THEN /\ tokens' = Put(tokens, ConcClient, Consume(tcur[t], 1))
            /\ admitted' = admitted + Scaled(1)
       ELSE UNCHANGED <<tokens, admitted>>
    /\ tpc' = [tpc EXCEPT ![t] = "idle"]
    /\ UNCHANGED <<capacity, refill_rate, timestamps, last, streak, clock, tcur,
                   firstSeen, breakerVars, keyVars, moreVars>>

\* time passes
Tick ==
    /\ clock < MaxConcTime * TicksPerSecond
    /\ clock' = clock + 1
    /\ UNCHANGED <<bucketVars, concVars, breakerVars, keyVars, moreVars>>

NextConc ==
    \/ \E t \in Callers : TakeRefill(t)
    \/ \E t \in Callers : TakeRead(t)
    \/ \E t \in Callers : TakeDecide(t)
    \/ Tick

SpecConc == InitBucket /\ [][NextConc]_vars

----------------------------------------------------------------------------
(* A breaker used by several callers at once *)

InitBreaker ==
    /\ clock = 0
    /\ IdleBucket
    /\ InitConc
    /\ NoKeys
    /\ IdleMore
    /\ \E threshold \in FailureThresholds, timeout \in RecoveryTimeouts,
          fallback \in BOOLEAN :
           NewBreaker(threshold, timeout, fallback, 0)
    /\ expected_exceptions \in ExceptionFilters

NextBreaker ==
    \/ \E c \in Callers : Enter(c)
    \/ \E c \in Callers : OpSucceeds(c)
    \/ \E c \in Callers, exc \in Raised : OpFails(c, exc)
    \/ \E c \in Callers, exc \in Raised : OpFailsUncounted(c, exc)
    \/ Reset
    \/ ForceOpen
    \/ BreakerTick

SpecBreaker == InitBreaker /\ [][NextBreaker]_vars

----------------------------------------------------------------------------
(* The registry CircuitBreaker._circuit_breakers, for one name.  The breaker *)
(* variables are the fields of the breaker the registry holds under the      *)
(* name, and inflight the calls running on that breaker.                     *)

DefaultFailureThreshold == 5
DefaultRecoveryTimeout == 30

\* CircuitBreaker(name, ...), also through circuit_protected(name=...): a new
\* breaker is made and self._circuit_breakers[name] = self puts it in the
\* registry, in place of the one that was there
Construct(threshold, timeout, fallback) ==
    /\ registered < MaxBreakers
    /\ registered' = registered + 1
    /\ failure_threshold' = threshold
    /\ recovery_timeout' = timeout
    /\ has_fallback' = fallback
    /\ expected_exceptions' = DefaultExpectedExceptions
    /\ state' = CLOSED
    /\ failure_count' = 0
    /\ last_failure_time' = 0
    /\ last_success_time' = clock
    /\ inflight' = {}
    /\ consecFails' = 0
    /\ probes' = {}
    /\ lastB' = [op |-> "construct", caller |-> Null, pre |-> state,
                 outcome |-> "returned", invoked |-> FALSE, exc |-> NoException]
    /\ UNCHANGED <<clock, bucketVars, concVars, keyVars, scopeVars, limitVars, batchVars, spanVars>>

\* CircuitBreaker.get_circuit_breaker(name)
GetCircuitBreaker ==
    IF registered = 0
    THEN Construct(DefaultFailureThreshold, DefaultRecoveryTimeout, FALSE)
    ELSE /\ lastB' = [op |-> "get_circuit_breaker", caller |-> Null, pre |-> state,
                      outcome |-> "returned", invoked |-> FALSE, exc |-> NoException]
         /\ UNCHANGED <<failure_threshold, recovery_timeout, has_fallback,
                        expected_exceptions, state, failure_count,
                        last_failure_time, last_success_time, inflight,
                        consecFails, probes>>
         /\ UNCHANGED <<clock, bucketVars, concVars, keyVars, moreVars>>

\* no breaker has been constructed
InitRegistry ==
    /\ clock = 0
    /\ IdleBucket
    /\ InitConc
    /\ NoKeys
    /\ IdleScope
    /\ IdleLimit
    /\ IdleBatch
    /\ IdleSpan
    /\ IdleBreaker
    /\ registered = 0

NextRegistry ==
    \/ \E threshold \in FailureThresholds, timeout \in RecoveryTimeouts :
           Construct(threshold, timeout, FALSE)
    \/ GetCircuitBreaker
    \/ registered > 0 /\ NextBreaker

SpecRegistry == InitRegistry /\ [][NextRegistry]_vars

----------------------------------------------------------------------------
(* The API keys of two users *)

InitKeys ==
    /\ clock = 0
    /\ IdleBucket
    /\ InitConc
    /\ IdleBreaker
    /\ NoKeys
    /\ IdleMore

NextKeys ==
    \/ \E u \in KeyOwners, e \in ExpiryDays : CreateApiKey(u, e)
    \/ \E id \in KeyIds, u \in Users, g \in GraceDays, wc \in BOOLEAN :
           RotateApiKey(id, u, NoDays, g, wc)
    \/ \E id \in KeyIds, u \in Users : DeactivateApiKey(id, u)
    \/ \E v \in KeyValues : Authenticate(v)
    \/ NextDay

SpecKeys == InitKeys /\ [][NextKeys]_vars

----------------------------------------------------------------------------
(* Endpoints that require scopes, requested by any user *)

InitScope ==
    /\ clock = 0
    /\ IdleBucket
    /\ InitConc
    /\ IdleBreaker
    /\ NoKeys
    /\ IdleRegistry
    /\ IdleLimit
    /\ IdleBatch
    /\ IdleSpan
    /\ current_user \in ScopeUsers
    /\ lastS = NoScopeCheck

NextScope ==
    \/ \E required_scopes \in SUBSET RequiredScopes : RequireScope(required_scopes)
    \/ \E required_scope \in RequiredScopes : RequireScopeLegacy(required_scope)
    \/ \E user \in ScopeUsers : Login(user)

SpecScope == InitScope /\ [][NextScope]_vars

----------------------------------------------------------------------------
(* Claims about the TokenBucket *)

\* C2: take calls on one identity that run at the same time have the result
\* of some serial order of the calls: the tokens they hand out never exceed
\* the capacity plus what the elapsed time refilled (no two calls succeed on
\* tokens only one of them could consume), and the count is never negative.
TakesSerializable ==
    \A c \in DOMAIN tokens :
        /\ tokens[c] >= 0
        /\ admitted + tokens[c] <= Scaled(capacity) + (clock - firstSeen) * refill_rate

\* C1: after any sequence of take calls on one identity, whatever the costs
\* and the clock readings, the stored token count of the identity is never
\* above capacity and never negative.
TokensWithinBounds ==
    \A c \in DOMAIN tokens : 0 <= tokens[c] /\ tokens[c] <= Scaled(capacity)

\* C8: a denied take leaves the token count of the identity at the value the
\* refill of that same call computed (capacity for a client seen for the
\* first time, min(capacity, count + elapsed * refill_rate) otherwise):
\* nothing is subtracted and no second refill is applied.
DeniedTakeKeepsRefill ==
    [][(last'.op = "take" /\ ~last'.result) =>
         LET c == last'.client
             expected == IF c \in DOMAIN timestamps
                         THEN Min(Scaled(capacity),
                                  tokens[c] + (last'.now - timestamps[c]) * refill_rate)
                         ELSE Scaled(capacity)
         IN  tokens'[c] = expected /\ last'.refilled = expected]_vars

\* a take was denied after a refill that added tokens
DeniedTakeAfterRefill ==
    last.op = "take" /\ ~last.result /\ last.refill = "partial" /\ last.cost > 0

\* C9: get_tokens at clock reading t, for an identity whose last operation
\* was at t0 and left n tokens, returns min(capacity, n + (t - t0) *
\* refill_rate); refills compose (5/2 drained +2s: 4; 10/2 with 5 left
\* +10s: 10; 10/1 with 5 left +2s: 7, take 4: 3, +3s: 6).
GetTokensIsLinearRefill ==
    [][(last'.op = "get_tokens" /\ last'.client \in DOMAIN timestamps) =>
         LET c == last'.client
             n == tokens[c]
             dt == last'.now - timestamps[c]
             got == last'.num
         IN  /\ got = Min(Scaled(capacity), n + dt * refill_rate)
             /\ tokens'[c] = got
             /\ (capacity = 5 /\ refill_rate = 2 /\ n = 0 /\ dt = Scaled(2))
                    => got = Scaled(4)
             /\ (capacity = 10 /\ refill_rate = 2 /\ n = Scaled(5) /\ dt = Scaled(10))
                    => got = Scaled(10)
             /\ (capacity = 10 /\ refill_rate = 1 /\ n = Scaled(5) /\ dt = Scaled(2))
                    => got = Scaled(7)
             /\ (capacity = 10 /\ refill_rate = 1 /\ n = Scaled(3) /\ dt = Scaled(3))
                    => got = Scaled(6)]_vars

\* get_tokens returned 4 on a bucket of capacity 5 and rate 2 that refilled
\* below its capacity
GetTokensAfterPartialRefill ==
    /\ last.op = "get_tokens" /\ last.refill = "partial"
    /\ capacity = 5 /\ refill_rate = 2 /\ last.num = Scaled(4)

\* C10: on a fresh identity, and on a drained bucket capacity / refill_rate
\* seconds later, exactly capacity unit-cost takes are admitted at one clock
\* reading: a take is denied only once capacity takes were admitted, and then
\* time_until_tokens(identity, 1) is 1 / refill_rate seconds.
FullBucketAdmitsCapacity ==
    (streak.n >= 0 /\ streak.start \in {"fresh", "drained"}) =>
        /\ streak.n <= capacity
        /\ tokens[streak.client] = Scaled(capacity - streak.n)
        /\ (last.op = "take" /\ ~last.result) => streak.n = capacity
        /\ (last.op = "take" /\ last.result) => streak.n >= 1
        \* last.num / (refill_rate * TicksPerSecond) seconds = 1 / refill_rate
        /\ (last.op = "time_until_tokens" /\ last.cost = 1) =>
               last.num = (IF streak.n = capacity THEN TicksPerSecond ELSE 0)

\* the take after capacity admitted ones was denied, on a bucket that was
\* drained and then left alone for capacity / refill_rate seconds
DrainedBucketRefilledAndDrained ==
    /\ streak.start = "drained" /\ streak.n = capacity
    /\ last.op = "take" /\ ~last.result

\* C18: a misconfigured TokenBucket (refill_rate <= 0 or capacity < 0) is
\* rejected when it is constructed, so that no later take, get_tokens,
\* time_until_tokens or get_next_refill_time call on a constructed bucket
\* fails because of its configuration.
NoCallFailsOnConfiguration == last.error = ""

\* C20: time_until_tokens(identity, need) returns 0 when need <= the
\* identity's token count after refill, and otherwise (need - count) /
\* refill_rate (with one token left at rate 2: need 2 gives 0.5, need 6 gives
\* 2.5, need 1 gives 0).  last.num is the numerator of the seconds returned,
\* over refill_rate * TicksPerSecond.
TimeUntilTokensFormula ==
    [][last'.op = "time_until_tokens" =>
         LET c == last'.client
             need == Scaled(last'.cost)
             count == IF c \in DOMAIN timestamps
                      THEN Min(Scaled(capacity),
                               tokens[c] + (last'.now - timestamps[c]) * refill_rate)
                      ELSE Scaled(capacity)
         IN  /\ last'.error = ""
             /\ tokens'[c] = count
             /\ need <= count => last'.num = 0
             /\ need > count => last'.num = need - count
             /\ (refill_rate = 2 /\ count = Scaled(1)) =>
                    \* 0.5 s, 2.5 s and 0 s
                    /\ last'.cost = 2 => 2 * last'.num = 1 * refill_rate * TicksPerSecond
                    /\ last'.cost = 6 => 2 * last'.num = 5 * refill_rate * TicksPerSecond
                    /\ last'.cost = 1 => last'.num = 0]_vars

\* time_until_tokens was asked for 6 tokens, more than the capacity, with one
\* token left at rate 2
TimeUntilSixWithOneLeft ==
    /\ last.op = "time_until_tokens" /\ last.cost = 6
    /\ refill_rate = 2 /\ capacity = 5
    /\ last.refilled = Scaled(1) /\ last.refill = "same"
    /\ last.num = 5 * TicksPerSecond

\* the unit-cost takes admitted at the clock readings t1..t2
RECURSIVE AdmittedIn(_, _)
AdmittedIn(t1, t2) ==
    IF t1 > t2 THEN 0 ELSE Get(admits, t1, 0) + AdmittedIn(t1 + 1, t2)

\* C29: for one identity, unit-cost takes and a clock that never goes back,
\* the takes admitted within any span of T seconds number at most
\* capacity + T * refill_rate.
AdmittedWithinRate ==
    \A t1 \in 0..clock, t2 \in 0..clock :
        t1 <= t2 =>
            Scaled(AdmittedIn(t1, t2)) <= Scaled(capacity) + (t2 - t1) * refill_rate

\* over a span of two seconds or more that starts with a drained bucket's
\* refill, as many takes were admitted as the bound allows
SpanFilledToTheBound ==
    \E t1 \in 0..clock :
        /\ clock - t1 >= 2 * TicksPerSecond
        /\ Scaled(AdmittedIn(t1, clock)) =
               Scaled(capacity) + (clock - t1) * refill_rate
        /\ last.op = "take" /\ last.result /\ last.now = clock

\* C30: a take, get_tokens, time_until_tokens or get_next_refill_time call for
\* one identity leaves the token count and the timestamp of every other
\* identity unchanged.
OtherClientsUntouched ==
    [][\A c \in DOMAIN tokens :
          c # last'.client =>
              /\ c \in DOMAIN tokens' /\ tokens'[c] = tokens[c]
              /\ c \in DOMAIN timestamps' /\ timestamps'[c] = timestamps[c]]_vars

\* a take of one client was admitted after a refill while the other client's
\* bucket, last touched earlier, is below capacity
TakeBesideDrainedClient ==
    /\ last.op = "take" /\ last.result /\ last.refill = "partial"
    /\ \E c \in DOMAIN tokens :
           /\ c # last.client
           /\ tokens[c] < Scaled(capacity)
           /\ timestamps[c] < last.now

\* C23: get_next_refill_time(identity) returns now + time_until_tokens(identity,
\* c + 1), c being the identity's token count after the refill for the current
\* clock reading, also for an identity never seen before and for a bucket that
\* refilled since its last operation.
NextRefillCountsFromRefilled ==
    last.op = "get_next_refill_time" =>
        last.num = SecondsNeededNum(last.refilled, last.refilled + Scaled(1))

----------------------------------------------------------------------------
(* Claims about the API keys *)

\* the rotation-history rows of a key, oldest first
RotationsOf(k) == SelectSeq(history, LAMBDA h : h.api_key_id = k)

\* the key was rotated and its latest rotation was a routine one
LastRotationRoutine(k) ==
    LET r == RotationsOf(k) IN Len(r) > 0 /\ ~r[Len(r)].is_compromised

\* the key was rotated and its latest rotation was a compromised one
LastRotationCompromised(k) ==
    LET r == RotationsOf(k) IN Len(r) > 0 /\ r[Len(r)].is_compromised

\* the last operation was an authentication with the true value of key k
AuthenticatedWith(k) ==
    /\ lastK.op = "auth" /\ lastK.key = k
    /\ lastK.detail \notin {"Invalid API key", "Invalid API key format",
                             "API key is required"}

\* C3: after a routine rotation with grace_period_days = g the old key is in
\* its grace period and authenticates (unless it has expired) at every time
\* up to the rotation time + g days, and at every later time it is not in its
\* grace period and authentication with its value fails.
OldKeyWorksOnlyInGraceWindow ==
    \A k \in DOMAIN keys :
        LastRotationRoutine(k) =>
            LET r == RotationsOf(k)
                end == r[Len(r)].rotation_date + r[Len(r)].grace_period_days
            IN  /\ keys[k].grace_period_end = end
                /\ AuthenticatedWith(k) =>
                       IF lastK.at <= end
                       THEN lastK.ok \/ lastK.detail = "API key is expired"
                       ELSE ~lastK.ok

\* C4: a rotation with was_compromised = true leaves the old key with
\* is_active = false, was_compromised = true, grace_period_days = 0 and
\* grace_period_end = null whatever grace_period_days was requested, and
\* authentication with the old key's value fails from then on.
CompromisedKeyIsDeadAtOnce ==
    \A k \in DOMAIN keys :
        LastRotationCompromised(k) =>
            /\ ~keys[k].is_active
            /\ keys[k].was_compromised
            /\ keys[k].grace_period_days = 0
            /\ keys[k].grace_period_end = NoTime
            /\ AuthenticatedWith(k) =>
                   ~lastK.ok /\ lastK.detail = "API key is inactive"

\* the true value of a key was refused on the day it was rotated as
\* compromised, after an earlier routine rotation had given it a grace period
CompromisedKeyRefused ==
    /\ AuthenticatedWith(lastK.key) /\ ~lastK.ok
    /\ LastRotationCompromised(lastK.key)
    /\ Len(RotationsOf(lastK.key)) = 2
    /\ RotationsOf(lastK.key)[1].grace_period_end >= lastK.at
    /\ RotationsOf(lastK.key)[2].rotation_date = lastK.at

\* C11: in every state reachable by any sequence of create, rotate (routine
\* or compromised, repeated on the same key in either order) and revoke
\* operations, every key with was_compromised = true has grace_period_end =
\* null.
CompromisedHasNoGraceEnd ==
    \A k \in DOMAIN keys :
        keys[k].was_compromised => keys[k].grace_period_end = NoTime

\* C14: authentication with a key whose expires_at is at or before the
\* current time fails, whether the key is active, inactive or in a rotation
\* grace period; a key used exactly at its expires_at instant is rejected.
ExpiredKeyRejected ==
    \A k \in DOMAIN keys :
        (AuthenticatedWith(k) /\ keys[k].expires_at # NoTime
             /\ keys[k].expires_at <= lastK.at) => ~lastK.ok

\* C15: each successful rotate_api_key call adds exactly one rotation-history
\* record, together with the new key, carrying the old key's id and prefix,
\* the rotating user, a reason that tells compromised from routine rotation,
\* and the old key's grace_period_days and grace_period_end; a rotation that
\* fails because the key is not found for that user adds none, and no
\* operation changes or removes a record afterwards.
RotationRecordedOnce ==
    [][IF lastK'.op = "rotate" /\ lastK'.ok
       THEN LET k == lastK'.key
                h == history'[Len(history')]
            IN  /\ Len(history') = Len(history) + 1
                /\ SubSeq(history', 1, Len(history)) = history
                /\ Len(keys') = Len(keys) + 1
                /\ keys'[Len(keys')].rotated_from_id = k
                /\ h.api_key_id = k
                /\ h.previous_prefix = keys[k].prefix
                /\ h.rotated_by_user_id = keys[k].user_id
                /\ h.rotation_date = utcnow
                /\ h.is_compromised = lastK'.compromised
                /\ h.reason = (IF lastK'.compromised THEN "Compromised key"
                                ELSE "Routine rotation")
                /\ h.grace_period_days = keys'[k].grace_period_days
                /\ h.grace_period_end = keys'[k].grace_period_end
       ELSE history' = history]_vars

\* a compromised rotation was recorded after a routine one
CompromisedRotationRecorded ==
    /\ lastK.op = "rotate" /\ lastK.ok /\ lastK.compromised
    /\ Len(history) = 2
    /\ history[1].reason = "Routine rotation"
    /\ history[2].reason = "Compromised key"
    /\ history[2].grace_period_end = NoTime

\* C25: at every time a key is in its grace period exactly when
\* grace_period_end is set and the time is at or before it, and the credential
\* class, the stored-key model and the authentication dependency give the
\* same answer, also at the instant grace_period_end.
GracePeriodAgreed ==
    \A k \in DOMAIN keys :
        LET in_grace == /\ keys[k].grace_period_end # NoTime
                        /\ utcnow <= keys[k].grace_period_end
        IN  /\ APIKeyIsInGracePeriod(keys[k], utcnow) = in_grace
            /\ ModelIsInGracePeriod(keys[k], utcnow) = in_grace
            /\ GracePeriodCheck(keys[k], utcnow) = in_grace

\* the key was rotated as compromised at some time
EverCompromised(k) ==
    \E i \in 1..Len(history) :
        history[i].api_key_id = k /\ history[i].is_compromised

\* C27: once a key has been rotated as compromised, authentication with its
\* value fails in every later state, also after further rotate or revoke
\* operations on that key.
CompromisedKeyStaysDead ==
    \A k \in DOMAIN keys :
        (EverCompromised(k) /\ AuthenticatedWith(k)) => ~lastK.ok

\* C28: after deactivate_api_key has deactivated a key, authentication with
\* its value fails at every later time, whatever rotations were made on the
\* key before or after.
RevokedKeyStaysDead ==
    \A k \in revoked : AuthenticatedWith(k) => ~lastK.ok

----------------------------------------------------------------------------
(* Claims about the CircuitBreaker *)

\* C5: counted from a Closed breaker with failure_count 0, the
\* failure_threshold-th countable failure in a row (and none before it) moves
\* the breaker from Closed to Open, and an execute call made while it is Open
\* and recovery_timeout has not elapsed since last_failure_time raises
\* CircuitOpenError without invoking the wrapped operation.
OpensAtThresholdAndFailsFast ==
    /\ (lastB.op = "failure" /\ lastB.pre = CLOSED) =>
           /\ failure_count = consecFails
           /\ state = (IF consecFails >= failure_threshold THEN OPEN ELSE CLOSED)
    /\ (lastB.op = "enter" /\ lastB.pre = OPEN
           /\ clock - last_failure_time < recovery_timeout) =>
           /\ lastB.outcome = "CircuitOpenError"
           /\ ~lastB.invoked
           /\ lastB.caller \notin inflight
           /\ state = OPEN

\* the call after the failure that opened the breaker was refused
RefusedAfterThresholdFailures ==
    /\ lastB.op = "enter" /\ lastB.outcome = "CircuitOpenError"
    /\ consecFails = failure_threshold /\ failure_count = failure_threshold
    /\ inflight = {}

\* C6: an execute call on an Open breaker at least recovery_timeout after
\* last_failure_time sets the state to HalfOpen and invokes the wrapped
\* operation; a countable failure recorded in HalfOpen sets the state to Open
\* and leaves failure_count at failure_threshold or more.
HalfOpenProbeAndReopen ==
    /\ (lastB.op = "enter" /\ lastB.pre = OPEN
           /\ clock - last_failure_time >= recovery_timeout) =>
           /\ state = HALF_OPEN
           /\ lastB.outcome = "running"
           /\ lastB.invoked
           /\ lastB.caller \in inflight
    /\ (lastB.op = "failure" /\ lastB.pre = HALF_OPEN) =>
           /\ state = OPEN
           /\ failure_count >= failure_threshold

\* the probe of a HalfOpen breaker failed
ProbeFailed ==
    lastB.op = "failure" /\ lastB.pre = HALF_OPEN /\ state = OPEN /\ inflight = {}

\* C7: in every reachable state, whatever the interleaving of execute calls,
\* reset and force_open, state = OPEN implies failure_count >=
\* failure_threshold.
OpenImpliesThresholdReached ==
    state = OPEN => failure_count >= failure_threshold

\* a call admitted earlier succeeded while the breaker was Open and another
\* call is still running
SuccessRecordedWhileOpen ==
    lastB.op = "success" /\ lastB.pre = OPEN /\ state = OPEN /\ inflight # {}

\* C12: every countable failure raised by the wrapped operation inside
\* execute is raised again to the caller of execute after the breaker's
\* bookkeeping, also when a fallback function is configured: execute never
\* returns normally for a call whose operation failed.
FailureReachesCaller ==
    lastB.op = "failure" => lastB.outcome = "raised"

\* C13: constructing a breaker for a name that is already registered yields
\* the breaker already registered under that name: its state, failure_count
\* and timestamps are kept, and get_circuit_breaker(name) returns the same
\* breaker before and after the repeated construction.
RegistrationIdempotent ==
    [][(registered > 0 /\ lastB'.op \in {"construct", "get_circuit_breaker"}) =>
          /\ registered' = registered
          /\ state' = state
          /\ failure_count' = failure_count
          /\ last_failure_time' = last_failure_time
          /\ last_success_time' = last_success_time]_vars

\* C21: while the breaker is HalfOpen a single probe is let through: an
\* execute call that arrives in HalfOpen while a probe admitted there is still
\* running does not invoke the wrapped operation.
SingleProbeInHalfOpen ==
    (lastB.op = "enter" /\ lastB.pre = HALF_OPEN
        /\ probes \ {lastB.caller} # {}) => ~lastB.invoked

\* C22: a wrapped operation that ends by cancellation or by timeout is
\* recorded as a countable failure, unless expected_exceptions was given to
\* leave it out, and the cancellation or timeout is raised to the caller.
CancellationCounted ==
    (lastB.op \in {"failure", "uncounted"}
        /\ lastB.exc \in {"CancelledError", "TimeoutError"}
        /\ expected_exceptions = DefaultExpectedExceptions) =>
        /\ lastB.op = "failure"
        /\ last_failure_time = clock
        /\ lastB.outcome = "raised"

\* C24: a success recorded while the breaker is Closed or HalfOpen leaves it
\* Closed with failure_count 0, and a countable failure moves the breaker
\* from Closed to Open only as the failure_threshold-th since the last success
\* or reset.
SuccessClosesAndClears ==
    /\ (lastB.op = "success" /\ lastB.pre \in {CLOSED, HALF_OPEN}) =>
           /\ state = CLOSED
           /\ failure_count = 0
    /\ (lastB.op = "failure" /\ lastB.pre = CLOSED /\ state = OPEN) =>
           consecFails = failure_threshold

\* the probe of a HalfOpen breaker succeeded
RecoveredByProbe ==
    /\ lastB.op = "success" /\ lastB.pre = HALF_OPEN /\ state = CLOSED
           /\ failure_count = 0 /\ inflight = {}

----------------------------------------------------------------------------
(* Claims about the RateLimitMiddleware *)

\* C17: the retry-after a 429 advertises is never smaller than the exact
\* time until one token is available, and a client that is denied with 429
\* and retries no earlier than Retry-After seconds later, with no other
\* request for its identity in between, is admitted.
RetryAfterIsEnough ==
    /\ (lastL.op = "dispatch" /\ lastL.status = 429) =>
           \* retry_after >= wait_num / (refill_rate * TicksPerSecond)
           Scaled(lastL.retry_after) * refill_rate >= lastL.wait_num
    /\ (lastL.op = "dispatch" /\ lastL.waited >= 0
           /\ lastL.waited >= Scaled(lastL.prev_retry_after)) =>
           lastL.status = 200

\* C19: rate limits are separate per endpoint: after a client has exhausted
\* its limit on one endpoint and is answered 429 there, its request to a
\* different endpoint, one it has not used yet, is still admitted.
EndpointsLimitedSeparately ==
    (lastL.op = "dispatch" /\ lastL.limited_elsewhere /\ lastL.new_path) =>
        lastL.status = 200

----------------------------------------------------------------------------
(* Claims about request batching *)

\* C26: a batch handed to batch_fn by _process_batch never contains more than
\* max_batch_size requests.
BatchWithinMaxSize ==
    lastQ.op = "batch_fn" => lastQ.size <= lastQ.max_batch_size

----------------------------------------------------------------------------
(* Claims about scope authorization *)

\* C16: scope authorization grants access when the user has the admin flag,
\* or when "*" is among the user's scopes, or when every required scope is
\* literally present in the user's scopes, and denies in every other case,
\* naming the missing scopes.
ScopeGrantedIffEntitled ==
    lastS.op # "none" =>
        LET entitled == \/ current_user.is_admin
                        \/ "*" \in current_user.scopes
                        \/ lastS.required \subseteq current_user.scopes
        IN  /\ lastS.granted = entitled
            /\ ~lastS.granted => lastS.missing = lastS.required \ current_user.scopes

====
